---- MODULE Spec2Model ----
(***************************************************************************)
(* Model of wazuh-rule-manager: the rule loader and patcher (manager.py),  *)
(* the policy store (policy.py) and the command-line run                   *)
(* (wazuh-rule-manager.py).                                                *)
(*                                                                         *)
(* Python values are records: None is [t |-> "none"], an int n is          *)
(* [t |-> "int", n |-> n], a str is [t |-> "str", s |-> <<characters>>].   *)
(* Texts are sequences of one-character strings so that int(), str(),      *)
(* str.format, str.split, str.replace and re.match are computed, not       *)
(* assumed.  Floats are IEEE-754 doubles: a sign, a mantissa of at most 53 *)
(* bits and a binary exponent, with round-to-nearest-even after every      *)
(* operation.                                                              *)
(***************************************************************************)
EXTENDS Integers, Sequences, FiniteSets, TLC

(***************************************************************************)
(* Python values                                                           *)
(***************************************************************************)
None == [t |-> "none"]
PyInt(n) == [t |-> "int", n |-> n]
PyStr(s) == [t |-> "str", s |-> s]

IsNone(v) == v.t = "none"
IsInt(v) == v.t = "int"
IsStr(v) == v.t = "str"

Digits == {"0", "1", "2", "3", "4", "5", "6", "7", "8", "9"}

DigitVal(c) ==
    CASE c = "0" -> 0 [] c = "1" -> 1 [] c = "2" -> 2 [] c = "3" -> 3
      [] c = "4" -> 4 [] c = "5" -> 5 [] c = "6" -> 6 [] c = "7" -> 7
      [] c = "8" -> 8 [] c = "9" -> 9

DigitChar(d) ==
    CASE d = 0 -> "0" [] d = 1 -> "1" [] d = 2 -> "2" [] d = 3 -> "3"
      [] d = 4 -> "4" [] d = 5 -> "5" [] d = 6 -> "6" [] d = 7 -> "7"
      [] d = 8 -> "8" [] d = 9 -> "9"

AllIn(s, set) == \A i \in 1..Len(s) : s[i] \in set

\* str(n) of a natural number
RECURSIVE NatToStr(_)
NatToStr(n) ==
    IF n < 10 THEN <<DigitChar(n)>>
    ELSE NatToStr(n \div 10) \o <<DigitChar(n % 10)>>

\* str(n) of an int
IntToStr(n) == IF n < 0 THEN <<"-">> \o NatToStr(0 - n) ELSE NatToStr(n)

\* the value of a nonempty sequence of decimal digits
RECURSIVE DigitsToNat(_)
DigitsToNat(s) ==
    IF Len(s) = 0 THEN 0
    ELSE 10 * DigitsToNat(SubSeq(s, 1, Len(s) - 1)) + DigitVal(s[Len(s)])

\* str.strip() restricted to blanks
RECURSIVE StripBlanks(_)
StripBlanks(s) ==
    IF Len(s) = 0 THEN s
    ELSE IF s[1] = " " THEN StripBlanks(Tail(s))
    ELSE IF s[Len(s)] = " " THEN StripBlanks(SubSeq(s, 1, Len(s) - 1))
    ELSE s

\* whether int(text) succeeds: blanks stripped, an optional sign, then digits
ParsesAsInt(s) ==
    LET b == StripBlanks(s)
        u == IF Len(b) > 0 /\ b[1] \in {"+", "-"} THEN Tail(b) ELSE b
    IN  Len(u) > 0 /\ AllIn(u, Digits)

\* int(text) when it succeeds
ParseInt(s) ==
    LET b == StripBlanks(s)
        neg == Len(b) > 0 /\ b[1] = "-"
        u == IF Len(b) > 0 /\ b[1] \in {"+", "-"} THEN Tail(b) ELSE b
    IN  IF neg THEN 0 - DigitsToNat(u) ELSE DigitsToNat(u)

\* int(v): "ok" with the number, or the exception Python raises
IntOf(v) ==
    IF IsInt(v) THEN [ok |-> TRUE, n |-> v.n, exc |-> "none"]
    ELSE IF IsNone(v) THEN [ok |-> FALSE, n |-> 0, exc |-> "TypeError"]
    ELSE IF ParsesAsInt(v.s) THEN [ok |-> TRUE, n |-> ParseInt(v.s), exc |-> "none"]
    ELSE [ok |-> FALSE, n |-> 0, exc |-> "ValueError"]

\* str(v) of an int or a str
StrOf(v) == IF IsInt(v) THEN IntToStr(v.n) ELSE v.s

(***************************************************************************)
(* Natural numbers of any size: sequences of bits, least significant       *)
(* first, without a most significant zero (zero is the empty sequence).    *)
(***************************************************************************)
RECURSIVE NatBits(_)
NatBits(n) == IF n = 0 THEN <<>> ELSE <<n % 2>> \o NatBits(n \div 2)

RECURSIVE BitsNat(_)
BitsNat(b) == IF Len(b) = 0 THEN 0 ELSE b[1] + 2 * BitsNat(Tail(b))

RECURSIVE Normal(_)
Normal(b) ==
    IF Len(b) = 0 THEN b
    ELSE IF b[Len(b)] = 0 THEN Normal(SubSeq(b, 1, Len(b) - 1))
    ELSE b

Zeros(k) == [i \in 1..k |-> 0]

\* b * 2^k
ShiftLeft(b, k) == IF Len(b) = 0 THEN b ELSE Zeros(k) \o b

RECURSIVE AddBits(_, _, _)
AddBits(a, b, carry) ==
    IF Len(a) = 0 /\ Len(b) = 0 THEN NatBits(carry)
    ELSE LET x == IF Len(a) = 0 THEN 0 ELSE a[1]
             y == IF Len(b) = 0 THEN 0 ELSE b[1]
             s == x + y + carry
         IN  <<s % 2>> \o AddBits(IF Len(a) = 0 THEN a ELSE Tail(a),
                                  IF Len(b) = 0 THEN b ELSE Tail(b),
                                  s \div 2)

\* a - b for a >= b, before normalisation
RECURSIVE SubBits(_, _, _)
SubBits(a, b, borrow) ==
    IF Len(a) = 0 THEN <<>>
    ELSE LET y == IF Len(b) = 0 THEN 0 ELSE b[1]
             d == a[1] - y - borrow
         IN  <<d % 2>> \o SubBits(Tail(a),
                                  IF Len(b) = 0 THEN b ELSE Tail(b),
                                  IF d < 0 THEN 1 ELSE 0)

\* a * m for a small natural number m
RECURSIVE MulBits(_, _, _)
MulBits(a, m, carry) ==
    IF Len(a) = 0 THEN NatBits(carry)
    ELSE LET s == a[1] * m + carry
         IN  <<s % 2>> \o MulBits(Tail(a), m, s \div 2)

\* -1, 0, 1 as a < b, a = b, a > b, on normal bit sequences
RECURSIVE CmpBits(_, _)
CmpBits(a, b) ==
    IF Len(a) # Len(b) THEN (IF Len(a) < Len(b) THEN -1 ELSE 1)
    ELSE IF Len(a) = 0 THEN 0
    ELSE IF a[Len(a)] # b[Len(b)] THEN (IF a[Len(a)] < b[Len(b)] THEN -1 ELSE 1)
    ELSE CmpBits(SubSeq(a, 1, Len(a) - 1), SubSeq(b, 1, Len(b) - 1))

(***************************************************************************)
(* IEEE-754 doubles: [s, m, e] is s * m * 2^e, m of at most MantBits bits  *)
(***************************************************************************)
MantBits == 53
\* fractional quotient bits computed before rounding a division
DivBits == MantBits + 11

FloatZero == [s |-> 1, m |-> <<>>, e |-> 0]

\* round the exact magnitude b * 2^e to the nearest double, ties to even
RoundToDouble(sign, bits, e) ==
    LET b == Normal(bits)
    IN  IF Len(b) <= MantBits THEN [s |-> sign, m |-> b, e |-> e]
        ELSE LET k == Len(b) - MantBits
                 kept == SubSeq(b, k + 1, Len(b))
                 guard == b[k]
                 rest == \E i \in 1..(k - 1) : b[i] = 1
                 up == guard = 1 /\ (rest \/ kept[1] = 1)
                 inc == IF up THEN AddBits(kept, <<1>>, 0) ELSE kept
             IN  IF Len(inc) > MantBits
                 THEN [s |-> sign, m |-> Tail(inc), e |-> e + k + 1]
                 ELSE [s |-> sign, m |-> inc, e |-> e + k]

\* the first k bits after the binary point of r / d (r < d), most
\* significant first, followed by a sticky bit for a nonzero remainder
RECURSIVE FracBits(_, _, _)
FracBits(r, d, k) ==
    IF k = 0 THEN <<IF r = 0 THEN 0 ELSE 1>>
    ELSE LET bit == IF 2 * r >= d THEN 1 ELSE 0
         IN  <<bit>> \o FracBits(2 * r - bit * d, d, k - 1)

Reverse(s) == [i \in 1..Len(s) |-> s[Len(s) + 1 - i]]

Abs(n) == IF n < 0 THEN 0 - n ELSE n
Sign(n) == IF n < 0 THEN -1 ELSE 1

\* int / int (true division, d # 0): the double nearest to the quotient
FloatDiv(n, d) ==
    IF n = 0 THEN FloatZero
    ELSE LET an == Abs(n)
             ad == Abs(d)
             frac == Reverse(FracBits(an % ad, ad, DivBits))
             q == frac \o NatBits(an \div ad)
         IN  RoundToDouble(Sign(n) * Sign(d), q, 0 - (DivBits + 1))

\* float * int
FloatMulInt(x, k) ==
    IF k = 0 \/ Len(x.m) = 0 THEN FloatZero
    ELSE RoundToDouble(x.s * Sign(k), MulBits(x.m, Abs(k), 0), x.e)

\* float + 1
FloatAddOne(x) ==
    IF Len(x.m) = 0 THEN [s |-> 1, m |-> <<1>>, e |-> 0]
    ELSE LET emin == IF x.e < 0 THEN x.e ELSE 0
             xm == ShiftLeft(x.m, x.e - emin)
             one == ShiftLeft(<<1>>, 0 - emin)
             c == CmpBits(xm, one)
         IN  IF x.s = 1 THEN RoundToDouble(1, AddBits(xm, one, 0), emin)
             ELSE IF c = 0 THEN FloatZero
             ELSE IF c > 0 THEN RoundToDouble(-1, SubBits(xm, one, 0), emin)
             ELSE RoundToDouble(1, SubBits(one, xm, 0), emin)

\* round(float): the nearest int, ties to even
PyRound(x) ==
    IF Len(x.m) = 0 THEN 0
    ELSE IF x.e >= 0 THEN x.s * BitsNat(ShiftLeft(x.m, x.e))
    ELSE LET k == 0 - x.e
             len == Len(x.m)
             whole == IF k >= len THEN 0 ELSE BitsNat(SubSeq(x.m, k + 1, len))
             half == IF k > len THEN 0 ELSE x.m[k]
             rest == IF k > len THEN TRUE ELSE \E i \in 1..(k - 1) : x.m[i] = 1
             up == half = 1 /\ (rest \/ whole % 2 = 1)
         IN  x.s * (whole + (IF up THEN 1 ELSE 0))

\* round((old_level - 1) / (old_max_level - 1) * (new_max_level - 1) + 1)
Remap(old_level, old_max_level, new_max_level) ==
    IF old_max_level - 1 = 0
    THEN [ok |-> FALSE, n |-> 0, exc |-> "ZeroDivisionError"]
    ELSE [ok |-> TRUE,
          n |-> PyRound(FloatAddOne(FloatMulInt(
                    FloatDiv(old_level - 1, old_max_level - 1),
                    new_max_level - 1))),
          exc |-> "none"]

(***************************************************************************)
(* File names                                                              *)
(***************************************************************************)
Letters == {"a", "b", "c", "d", "e", "f", "g", "h", "i", "j", "k", "l", "m",
            "n", "o", "p", "q", "r", "s", "t", "u", "v", "w", "x", "y", "z"}
\* the characters of the class [\w-]
WordDash == Letters \cup Digits \cup {"_", "-"}

XmlExt == <<".", "x", "m", "l">>
RulesSuffix == <<"_", "r", "u", "l", "e", "s">>

EndsWith(s, suf) ==
    Len(s) >= Len(suf) /\ SubSeq(s, Len(s) - Len(suf) + 1, Len(s)) = suf

\* the number of leading characters of s that belong to set
RECURSIVE LeadingIn(_, _)
LeadingIn(s, set) ==
    IF Len(s) = 0 \/ s[1] \notin set THEN 0 ELSE 1 + LeadingIn(Tail(s), set)

\* re.match(r'^\d+-[\w-]+\.xml$', filename)
MatchPriorityName(f) ==
    /\ EndsWith(f, XmlExt)
    /\ LET p == SubSeq(f, 1, Len(f) - Len(XmlExt))
           k == LeadingIn(p, Digits)
       IN  /\ k >= 1
           /\ Len(p) >= k + 2
           /\ p[k + 1] = "-"
           /\ AllIn(SubSeq(p, k + 2, Len(p)), WordDash)

\* re.match(r'^[\w-]+\.xml$', filename)
MatchPlainName(f) ==
    /\ EndsWith(f, XmlExt)
    /\ Len(f) > Len(XmlExt)
    /\ AllIn(SubSeq(f, 1, Len(f) - Len(XmlExt)), WordDash)

\* s.split(sep) for a one-character separator
RECURSIVE Split(_, _)
Split(s, sep) ==
    LET k == LeadingIn(s, {c \in {s[i] : i \in 1..Len(s)} : c # sep})
    IN  IF k = Len(s) THEN <<s>>
        ELSE <<SubSeq(s, 1, k)>> \o Split(SubSeq(s, k + 2, Len(s)), sep)

\* s.replace(pat, '')
RECURSIVE Remove(_, _)
Remove(s, pat) ==
    IF Len(s) < Len(pat) THEN s
    ELSE IF SubSeq(s, 1, Len(pat)) = pat
         THEN Remove(SubSeq(s, Len(pat) + 1, Len(s)), pat)
    ELSE <<s[1]>> \o Remove(Tail(s), pat)

\* '{:04d}'.format(n) for n >= 0
Pad4(n) ==
    LET d == NatToStr(n)
    IN  IF Len(d) >= 4 THEN d ELSE [i \in 1..(4 - Len(d)) |-> "0"] \o d

\* '{:04d}-{}_rules.xml'.format(priority, name)
NewFilename(priority, name) ==
    Pad4(priority) \o <<"-">> \o name \o RulesSuffix \o XmlExt

\* Policy.Collection(filename): the object, or the ValueError.  A collection
\* without the priority attribute has priority None.
PolicyCollection(filename) ==
    IF MatchPriorityName(filename)
    THEN [ok |-> TRUE,
          c |-> [filename |-> filename,
                 name |-> Remove(Remove(Split(filename, "-")[2], XmlExt), RulesSuffix),
                 priority |-> PyInt(DigitsToNat(Split(filename, "-")[1]))]]
    ELSE IF MatchPlainName(filename)
    THEN [ok |-> TRUE,
          c |-> [filename |-> filename,
                 name |-> Remove(Remove(filename, XmlExt), RulesSuffix),
                 priority |-> None]]
    ELSE [ok |-> FALSE,
          c |-> [filename |-> filename, name |-> <<>>, priority |-> None]]

(***************************************************************************)
(* Policy: the rule store (an OrderedDict keyed by rule id) and its        *)
(* collections.  A stored rule is [id, level, collection], collection      *)
(* being the index of the Collection object in policy_collections.         *)
(***************************************************************************)
\* equality of two Python values used as dict keys: an int never equals a str
KeyEq(a, b) ==
    /\ a.t = b.t
    /\ CASE a.t = "int" -> a.n = b.n
         [] a.t = "str" -> a.s = b.s
         [] OTHER -> TRUE

\* the position of key in the store, 0 when it is not a key
KeyIndex(store, key) ==
    IF \E i \in 1..Len(store) : KeyEq(store[i].id, key)
    THEN CHOOSE i \in 1..Len(store) : KeyEq(store[i].id, key)
    ELSE 0

\* self.rules[new_rule.id] = new_rule
DictSet(store, rule) ==
    LET i == KeyIndex(store, rule.id)
    IN  IF i = 0 THEN Append(store, rule) ELSE [store EXCEPT ![i] = rule]

\* Policy.get_rule_by_id: the position of the rule returned (0 for None),
\* or the exception that int() lets through
get_rule_by_id(store, rule_id) ==
    LET n == IntOf(rule_id)
    IN  IF n.ok THEN [ok |-> TRUE, i |-> KeyIndex(store, PyInt(n.n)), exc |-> "none"]
        ELSE IF n.exc = "ValueError"
        THEN LET i == KeyIndex(store, rule_id)
             IN  [ok |-> TRUE,
                  i |-> IF i # 0 THEN i ELSE KeyIndex(store, PyStr(StrOf(rule_id))),
                  exc |-> "none"]
        ELSE [ok |-> FALSE, i |-> 0, exc |-> n.exc]

\* Policy.get_collections(): the collections that some stored rule refers to
get_collections(store) == {store[i].collection : i \in 1..Len(store)}

\* Policy.num_collections()
policy_num_collections(store) == Cardinality(get_collections(store))

\* Policy.num_rules()
policy_num_rules(store) == Len(store)

Max(S) == CHOOSE m \in S : \A x \in S : x <= m

\* the collections fixup's second loop assigns a priority to
Unresolved(store, colls) == {c \in get_collections(store) : IsNone(colls[c].priority)}

\* the orders in which a set can be iterated
Orders(S) ==
    {o \in [1..Cardinality(S) -> S] : \A i, j \in 1..Cardinality(S) : o[i] = o[j] => i = j}

\* FixupLoop with last_priority never advanced
RECURSIVE FixupLoop_SameBase(_, _, _)
FixupLoop_SameBase(colls, order, last_priority) ==
    IF Len(order) = 0 THEN colls
    ELSE LET c == order[1]
             p == last_priority + 100
         IN  FixupLoop_SameBase([colls EXCEPT ![c].priority = PyInt(p),
                                              ![c].filename = NewFilename(p, colls[c].name)],
                                Tail(order), last_priority)

\* the second loop of Policy.fixup over the collections in the order given
RECURSIVE FixupLoop(_, _, _)
FixupLoop(colls, order, last_priority) ==
    IF Len(order) = 0 THEN colls
    ELSE LET c == order[1]
             p == last_priority + 100
         IN  FixupLoop([colls EXCEPT ![c].priority = PyInt(p),
                                     ![c].filename = NewFilename(p, colls[c].name)],
                       Tail(order), p)

\* Policy.fixup: max() of an empty list raises ValueError
fixup(store, colls, order) ==
    LET priorities == {colls[c].priority.n :
                          c \in {d \in get_collections(store) : IsInt(colls[d].priority)}}
    IN  IF priorities = {} THEN [ok |-> FALSE, colls |-> colls, exc |-> "ValueError"]
        ELSE [ok |-> TRUE, colls |-> FixupLoop(colls, order, Max(priorities)),
              exc |-> "none"]

\* Policy._load, the rows of one sheet: a row without id or level is skipped
\* with a warning, a row whose id is already a key raises IndexError
RECURSIVE LoadRows(_, _, _, _)
LoadRows(st, rows, cidx, filename) ==
    IF Len(rows) = 0 \/ st.err.exc # "none" THEN st
    ELSE LET row == rows[1]
         IN  IF IsNone(row.id) \/ IsNone(row.level)
             THEN LoadRows([st EXCEPT !.console = Append(@,
                               [kind |-> "WARNING_ROW", collection |-> filename, row |-> row])],
                           Tail(rows), cidx, filename)
             ELSE LET new_rule == [id |-> row.id, level |-> row.level, collection |-> cidx]
                      i == KeyIndex(st.rules, new_rule.id)
                  IN  IF i # 0
                      THEN [st EXCEPT !.err = [exc |-> "IndexError", new |-> new_rule,
                                               old |-> st.rules[i]]]
                      ELSE LoadRows([st EXCEPT !.rules = Append(@, new_rule)],
                                    Tail(rows), cidx, filename)

\* Policy._load over the sheets of the workbook
RECURSIVE LoadSheets(_, _)
LoadSheets(st, sheets) ==
    IF Len(sheets) = 0 \/ st.err.exc # "none" THEN st
    ELSE LET sheet == sheets[1]
         IN  IF ~EndsWith(sheet.name, XmlExt)
             THEN LoadSheets([st EXCEPT !.console = Append(@,
                                 [kind |-> "WARNING_SHEET", collection |-> sheet.name])],
                             Tail(sheets))
             ELSE LET made == PolicyCollection(sheet.name)
                  IN  IF ~made.ok
                      THEN [st EXCEPT !.err = [exc |-> "ValueError", filename |-> sheet.name]]
                      ELSE LoadSheets(
                               LoadRows([st EXCEPT !.colls = Append(@, made.c)],
                                        sheet.rows, Len(st.colls) + 1, made.c.filename),
                               Tail(sheets))

\* Policy.from_rules, the rules of one collection: every rule is stored
\* under its id attribute
RECURSIVE FromRulesRows(_, _, _)
FromRulesRows(st, rules, cidx) ==
    IF Len(rules) = 0 THEN st
    ELSE FromRulesRows(
             [st EXCEPT !.rules = DictSet(@, [id |-> rules[1].id, level |-> rules[1].level,
                                             collection |-> cidx])],
             Tail(rules), cidx)

\* Policy.from_rules over the collections of the RuleManager
RECURSIVE FromRulesLoop(_, _)
FromRulesLoop(st, input) ==
    IF Len(input) = 0 \/ st.err.exc # "none" THEN st
    ELSE LET made == PolicyCollection(input[1].filename)
         IN  IF ~made.ok
             THEN [st EXCEPT !.err = [exc |-> "ValueError", filename |-> input[1].filename]]
             ELSE FromRulesLoop(
                      FromRulesRows([st EXCEPT !.colls = Append(@, made.c)],
                                    input[1].rules, Len(st.colls) + 1),
                      Tail(input))

NoError == [exc |-> "none"]
EmptyPolicy == [rules |-> <<>>, colls |-> <<>>, console |-> <<>>, err |-> NoError]

(***************************************************************************)
(* RuleManager: collections is the list of loaded rule files, each         *)
(* [filename, rules]; a rule element is its attributes [id, level,         *)
(* overwrite, noalert], an absent attribute being None.                    *)
(***************************************************************************)
\* default of apply_policy's old_max_level
OldMaxLevel == 15
\* default of apply_policy's new_max_level
NewMaxLevel == 10

\* the comparison of the new level with the old one, both ints
Outcome(old_level, new_level) ==
    IF new_level = old_level THEN "NO CHANGE"
    ELSE IF new_level > old_level THEN "UPGRADE"
    ELSE "DOWNGRADE"

\* PatchRule with the overwrite attribute set whatever the flag is
PatchRule_AlwaysOverwrite(el, c, r, old_level, has_policy, new_level, overwrite) ==
    [el |-> [el EXCEPT !.level = PyStr(IntToStr(new_level)),
                       !.overwrite = PyStr(<<"y", "e", "s">>)],
     lines |-> (IF has_policy THEN <<>>
                ELSE <<[kind |-> "WARNING_NO_POLICY", c |-> c, r |-> r,
                        rule_id |-> el.id, new_level |-> new_level]>>)
               \o <<[kind |-> "RULE", c |-> c, r |-> r, rule_id |-> el.id,
                     old_level |-> old_level, new_level |-> new_level,
                     outcome |-> Outcome(old_level, new_level)]>>,
     exc |-> "none"]

\* the end of the loop's body, past the choice of new_level: the element
\* patched and the lines printed
PatchRule(el, c, r, old_level, has_policy, new_level, overwrite) ==
    [el |-> [el EXCEPT !.level = PyStr(IntToStr(new_level)),
                       !.overwrite = IF overwrite THEN PyStr(<<"y", "e", "s">>) ELSE @],
     lines |-> (IF has_policy THEN <<>>
                ELSE <<[kind |-> "WARNING_NO_POLICY", c |-> c, r |-> r,
                        rule_id |-> el.id, new_level |-> new_level]>>)
               \o <<[kind |-> "RULE", c |-> c, r |-> r, rule_id |-> el.id,
                     old_level |-> old_level, new_level |-> new_level,
                     outcome |-> Outcome(old_level, new_level)]>>,
     exc |-> "none"]

\* the loop's body past the conversion of the new level, which may raise
ChooseLevel(el, c, r, old_level, has_policy, new, overwrite) ==
    IF new.ok THEN PatchRule(el, c, r, old_level, has_policy, new.n, overwrite)
    ELSE [el |-> el, lines |-> <<>>, exc |-> new.exc]

\* WithPolicy with a rule that has no policy entry keeping its old level
WithPolicy_KeepsLevel(el, c, r, old_level, found, store, old_max_level, new_max_level, overwrite) ==
    IF ~found.ok THEN [el |-> el, lines |-> <<>>, exc |-> found.exc]
    ELSE ChooseLevel(el, c, r, old_level, found.i # 0,
                     IF found.i # 0 THEN IntOf(store[found.i].level)
                     ELSE [ok |-> TRUE, n |-> old_level, exc |-> "none"],
                     overwrite)

\* the loop's body past the lookup of the policy entry, which may raise
WithPolicy(el, c, r, old_level, found, store, old_max_level, new_max_level, overwrite) ==
    IF ~found.ok THEN [el |-> el, lines |-> <<>>, exc |-> found.exc]
    ELSE ChooseLevel(el, c, r, old_level, found.i # 0,
                     IF found.i # 0 THEN IntOf(store[found.i].level)
                     ELSE Remap(old_level, old_max_level, new_max_level),
                     overwrite)

\* the loop's body past int(rule_element.get('level')), which may raise
WithOldLevel(el, c, r, old, store, old_max_level, new_max_level, overwrite) ==
    IF ~old.ok THEN [el |-> el, lines |-> <<>>, exc |-> old.exc]
    ELSE WithPolicy(el, c, r, old.n, get_rule_by_id(store, el.id), store,
                    old_max_level, new_max_level, overwrite)

\* the body of apply_policy's loop for one rule element: the patched
\* element, the lines printed, and the exception raised if any
ApplyRule(el, c, r, store, old_max_level, new_max_level, overwrite) ==
    WithOldLevel(el, c, r, IntOf(el.level), store, old_max_level, new_max_level,
                 overwrite)

\* apply_policy's loops, from rule r of collection c on
RECURSIVE ApplyLoop(_, _, _, _, _, _, _)
ApplyLoop(st, c, r, store, old_max_level, new_max_level, overwrite) ==
    IF c > Len(st.collections) THEN st
    ELSE IF r > Len(st.collections[c].rules)
    THEN ApplyLoop(st, c + 1, 1, store, old_max_level, new_max_level, overwrite)
    ELSE LET res == ApplyRule(st.collections[c].rules[r], c, r, store,
                              old_max_level, new_max_level, overwrite)
         IN  IF res.exc # "none" THEN [st EXCEPT !.err = [exc |-> res.exc]]
             ELSE ApplyLoop([st EXCEPT !.collections[c].rules[r] = res.el,
                                       !.console = @ \o res.lines],
                            c, r + 1, store, old_max_level, new_max_level, overwrite)

\* RuleManager.apply_policy
apply_policy(colls, store, old_max_level, new_max_level, overwrite) ==
    ApplyLoop([collections |-> colls, console |-> <<>>, err |-> NoError],
              1, 1, store, old_max_level, new_max_level, overwrite)

\* RuleManager.num_collections()
num_collections(colls) == Len(colls)

RECURSIVE SumLen(_)
SumLen(colls) == IF Len(colls) = 0 THEN 0 ELSE Len(colls[1].rules) + SumLen(Tail(colls))

\* RuleManager.num_rules()
num_rules(colls) == SumLen(colls)

\* RuleManager._write_file: one file, the collections' elements one after
\* the other in the order of self.collections
write_file(colls, file) ==
    <<[mode |-> "single", name |-> file, parts |-> colls]>>

\* RuleManager._write_dir, past the is_dir() test: one file per collection
\* under the collection's filename
write_dir(colls) ==
    [i \in 1..Len(colls) |->
        [mode |-> "dir", name |-> colls[i].filename, parts |-> <<colls[i]>>]]

\* Policy.write: the sheets of the workbook saved, sorted by priority; the
\* sort key raises AttributeError for a collection without priority
policy_write(store, colls, order, file) ==
    IF \E c \in get_collections(store) : IsNone(colls[c].priority)
    THEN [ok |-> FALSE, files |-> <<>>, exc |-> "AttributeError"]
    ELSE [ok |-> TRUE,
          files |-> <<[mode |-> "policy", name |-> file,
                       parts |-> [i \in 1..Len(order) |->
                                     [filename |-> colls[order[i]].filename,
                                      rules |-> {j \in 1..Len(store) :
                                                    store[j].collection = order[i]}]]]>>,
          exc |-> "none"]

\* the orders sorted() can return for the set of collections: ascending
\* priority, collections of equal priority in the order the set yields them
SortedOrders(store, colls) ==
    {o \in Orders(get_collections(store)) :
        \A i, j \in 1..Len(o) : i < j => colls[o[i]].priority.n <= colls[o[j]].priority.n}

(***************************************************************************)
(* The inputs of a run: the rules directory and the policy workbook        *)
(***************************************************************************)
\* most rule elements in a rule file
MaxRules == 2
\* most data rows in a sheet
MaxRows == 2
\* most rule files in the rules directory
MaxFiles == 2
\* most sheets in the workbook
MaxSheets == 3

Txt7 == <<"7">>
Txt07 == <<"0", "7">>
TxtA == <<"a">>
Txt12 == <<"1", "2">>
Yes == <<"y", "e", "s">>

FileA == <<"0", "0", "0", "5", "-", "a">> \o RulesSuffix \o XmlExt
FileB == <<"b">> \o RulesSuffix \o XmlExt
FileC == <<"c">> \o XmlExt
FileD == <<"0", "0", "0", "2", "-", "d">> \o RulesSuffix \o XmlExt
FileBlank == <<"x", " ", "y">> \o XmlExt
FileE == <<"0", "0", "0", "7", "-", "e">> \o RulesSuffix \o XmlExt
FileF == <<"0", "0", "0", "9", "-", "f">> \o RulesSuffix \o XmlExt
SheetNotes == <<"n", "o", "t", "e", "s">>

Element(id, level, overwrite, noalert) ==
    [id |-> id, level |-> level, overwrite |-> overwrite, noalert |-> noalert]

El7 == Element(PyStr(Txt7), PyStr(<<"3">>), None, None)
El07 == Element(PyStr(Txt07), PyStr(<<"9">>), PyStr(<<"n", "o">>), None)
ElA == Element(PyStr(TxtA), PyStr(Txt12), None, PyStr(<<"1">>))
El12 == Element(PyStr(Txt12), PyStr(<<"8">>), None, None)
El7d == Element(PyStr(Txt7), PyStr(<<"5">>), PyStr(Yes), None)
El21 == Element(PyStr(<<"2", "1">>), PyStr(<<"6">>), None, None)
El22 == Element(PyStr(<<"2", "2">>), PyStr(<<"2">>), None, None)
\* a <rule> element without id attribute, and one without level attribute
ElNoId == Element(None, PyStr(<<"4">>), None, None)
ElNoLevel == Element(PyStr(<<"2", "0">>), None, None, None)

Row(id, level) == [id |-> id, level |-> level]

RowInt7 == Row(PyInt(7), PyInt(10))
RowTxt7 == Row(PyStr(Txt7), PyInt(5))
RowTxtA == Row(PyStr(TxtA), PyStr(Txt12))
RowInt7Low == Row(PyInt(7), PyInt(3))
RowNoId == Row(None, PyInt(5))
RowNoLevel == Row(PyInt(30), None)
RowInt12 == Row(PyInt(12), PyInt(4))

\* the sequences of 1 to n distinct members of S (0 to n when empty is allowed)
DistinctSeqs(S, lo, n) ==
    UNION {{q \in [1..k -> S] : \A i, j \in 1..k : q[i] = q[j] => i = j} : k \in lo..n}

\* the members of the set of positions T of a sequence, in the sequence's order
RECURSIVE Pick(_, _)
Pick(q, T) ==
    IF T = {} THEN <<>>
    ELSE LET i == CHOOSE x \in T : \A y \in T : x <= y
         IN  <<q[i]>> \o Pick(q, T \ {i})

\* directories of one rule file whose rules vary
LevelDirs ==
    {<<[filename |-> FileA, rules |-> rs]>> :
        rs \in DistinctSeqs({El7, El07, ElA, El12}, 1, MaxRules)}

\* workbooks of one sheet whose rows vary
LevelWorkbooks ==
    {<<[name |-> FileA, rows |-> rs]>> :
        rs \in DistinctSeqs({RowInt7, RowTxt7, RowTxtA, RowInt7Low}, 0, MaxRows)}

\* directories whose files vary, in the order glob() yields them
FileDirs ==
    DistinctSeqs({[filename |-> FileA, rules |-> <<El7>>],
                  [filename |-> FileB, rules |-> <<ElA>>],
                  [filename |-> FileD, rules |-> <<El7d>>],
                  [filename |-> FileBlank, rules |-> <<El12>>]}, 1, MaxFiles)

\* directories of rule files that hold a rule without id or without level
IncompleteDirs ==
    DistinctSeqs({[filename |-> FileE, rules |-> <<ElNoId, El21>>],
                  [filename |-> FileF, rules |-> <<El22, ElNoLevel>>]}, 1, MaxFiles)

AllSheets ==
    <<[name |-> FileA, rows |-> <<RowInt7>>],
      [name |-> FileB, rows |-> <<RowTxtA, RowNoLevel>>],
      [name |-> FileC, rows |-> <<RowNoId, RowInt12>>],
      [name |-> FileD, rows |-> <<RowInt7Low>>],
      [name |-> FileBlank, rows |-> <<RowTxt7>>],
      [name |-> SheetNotes, rows |-> <<RowNoId>>]>>

\* workbooks whose sheets vary
FileWorkbooks ==
    {Pick(AllSheets, T) :
        T \in {U \in SUBSET (1..Len(AllSheets)) : Cardinality(U) \in 1..MaxSheets}}

Dirs == LevelDirs \cup FileDirs \cup IncompleteDirs

\* the workbooks tried with the rules loaded
Workbooks(have, colls) ==
    IF have /\ colls \in LevelDirs \cup IncompleteDirs THEN LevelWorkbooks
    ELSE FileWorkbooks

(***************************************************************************)
(* The run of wazuh-rule-manager.py (without --map-levels, --json, --diff) *)
(***************************************************************************)
VARIABLES
    pc,                     \* where the run is
    have_rules,             \* rules is a RuleManager (--rules was given)
    collections,            \* RuleManager.collections
    policy_rules,           \* Policy.rules
    policy_colls,           \* the Policy.Collection objects created
    fixup_order,            \* the collections fixup's second loop met, in order
    overwrite_flag,         \* --overwrite, as passed to apply_policy
    policy_is_authoritative,\* the caller's wish that absent rules be left alone
    console,                \* the lines printed
    written,                \* the files written
    err,                    \* the exception that ended the run
    remap_args,             \* arguments of a call of the level mapping alone
    remap_result            \* its result

vars == <<pc, have_rules, collections, policy_rules, policy_colls, fixup_order,
          overwrite_flag, policy_is_authoritative, console, written, err,
          remap_args, remap_result>>

NoRemap == [old_level |-> 0, old_max |-> 0, new_max |-> 0]
Pending == [ok |-> FALSE, n |-> 0, exc |-> "pending"]

Init ==
    /\ pc = "start"
    /\ have_rules = FALSE
    /\ collections = <<>>
    /\ policy_rules = <<>>
    /\ policy_colls = <<>>
    /\ fixup_order = <<>>
    /\ overwrite_flag = FALSE
    /\ policy_is_authoritative = FALSE
    /\ console = <<>>
    /\ written = <<>>
    /\ err = NoError
    /\ remap_args = NoRemap
    /\ remap_result = Pending

\* --rules names a directory that does not exist: exit(1)
RulesDirMissing ==
    /\ pc = "start"
    /\ pc' = "exit1"
    /\ console' = Append(console, [kind |-> "ERROR_NO_RULES_DIR"])
    /\ UNCHANGED <<have_rules, collections, policy_rules, policy_colls, fixup_order,
                   overwrite_flag, policy_is_authoritative, written, err,
                   remap_args, remap_result>>

\* rules = RuleManager(args.rules)
LoadRules ==
    /\ pc = "start"
    /\ \E dir \in Dirs :
          /\ collections' = dir
          /\ console' = Append(console, [kind |-> "LOADED", rules |-> num_rules(dir),
                                         collections |-> num_collections(dir)])
    /\ have_rules' = TRUE
    /\ pc' = "args"
    /\ UNCHANGED <<policy_rules, policy_colls, fixup_order, overwrite_flag,
                   policy_is_authoritative, written, err, remap_args, remap_result>>

\* --rules is not given: rules stays None
NoRules ==
    /\ pc = "start"
    /\ pc' = "args"
    /\ UNCHANGED <<have_rules, collections, policy_rules, policy_colls, fixup_order,
                   overwrite_flag, policy_is_authoritative, console, written, err,
                   remap_args, remap_result>>

\* --policy and --gen-policy are both given: exit(1)
BothPolicies ==
    /\ pc = "args"
    /\ pc' = "exit1"
    /\ console' = Append(console, [kind |-> "ERROR_EXCLUSIVE"])
    /\ UNCHANGED <<have_rules, collections, policy_rules, policy_colls, fixup_order,
                   overwrite_flag, policy_is_authoritative, written, err,
                   remap_args, remap_result>>

\* neither --policy nor --gen-policy is given: nothing is left to do
NoPolicy ==
    /\ pc = "args"
    /\ pc' = "exit0"
    /\ UNCHANGED <<have_rules, collections, policy_rules, policy_colls, fixup_order,
                   overwrite_flag, policy_is_authoritative, console, written, err,
                   remap_args, remap_result>>

\* --gen-policy: policy = Policy(); policy.from_rules(rules)
FromRules ==
    /\ pc = "args"
    /\ LET st == IF have_rules THEN FromRulesLoop(EmptyPolicy, collections)
                 ELSE [EmptyPolicy EXCEPT !.err = [exc |-> "ValueError"]]
       IN  /\ policy_rules' = st.rules
           /\ policy_colls' = st.colls
           /\ console' = console \o st.console
           /\ err' = st.err
           /\ pc' = IF st.err.exc = "none" THEN "gen_loaded" ELSE "error"
    /\ UNCHANGED <<have_rules, collections, fixup_order, overwrite_flag,
                   policy_is_authoritative, written, remap_args, remap_result>>

\* --policy: policy = Policy(); policy.from_file(args.policy)
FromFile ==
    /\ pc = "args"
    /\ \E workbook \in Workbooks(have_rules, collections) :
          LET st == LoadSheets(EmptyPolicy, workbook)
          IN  /\ policy_rules' = st.rules
              /\ policy_colls' = st.colls
              /\ console' = console \o st.console
              /\ err' = st.err
              /\ pc' = IF st.err.exc = "none" THEN "pol_loaded" ELSE "error"
    /\ UNCHANGED <<have_rules, collections, fixup_order, overwrite_flag,
                   policy_is_authoritative, written, remap_args, remap_result>>

\* --fix: policy.fixup(); the set of collections is iterated in some order
Fixup ==
    /\ pc \in {"gen_loaded", "pol_loaded"}
    /\ \E order \in Orders(Unresolved(policy_rules, policy_colls)) :
          LET res == fixup(policy_rules, policy_colls, order)
          IN  /\ policy_colls' = res.colls
              /\ fixup_order' = IF res.ok THEN order ELSE <<>>
              /\ err' = IF res.ok THEN err ELSE [exc |-> res.exc]
              /\ pc' = IF ~res.ok THEN "error"
                       ELSE IF pc = "gen_loaded" THEN "gen_fixed" ELSE "pol_fixed"
    /\ UNCHANGED <<have_rules, collections, policy_rules, overwrite_flag,
                   policy_is_authoritative, console, written, remap_args, remap_result>>

\* --fix is not given
SkipFixup ==
    /\ pc \in {"gen_loaded", "pol_loaded"}
    /\ pc' = IF pc = "gen_loaded" THEN "gen_fixed" ELSE "pol_fixed"
    /\ UNCHANGED <<have_rules, collections, policy_rules, policy_colls, fixup_order,
                   overwrite_flag, policy_is_authoritative, console, written, err,
                   remap_args, remap_result>>

\* --gen-policy: policy.write(args.new_policy); exit(0)
PolicyWrite ==
    /\ pc = "gen_fixed"
    /\ IF \E c \in get_collections(policy_rules) : IsNone(policy_colls[c].priority)
       THEN /\ err' = [exc |-> "AttributeError"]
            /\ pc' = "error"
            /\ UNCHANGED written
       ELSE \E order \in SortedOrders(policy_rules, policy_colls) :
               /\ written' = policy_write(policy_rules, policy_colls, order,
                                          "new_policy").files
               /\ pc' = "exit0"
               /\ UNCHANGED err
    /\ UNCHANGED <<have_rules, collections, policy_rules, policy_colls, fixup_order,
                   overwrite_flag, policy_is_authoritative, console,
                   remap_args, remap_result>>

\* --policy without --rules: the policy is read and reported, nothing more
PolicyOnly ==
    /\ pc = "pol_fixed"
    /\ ~have_rules
    /\ pc' = "exit0"
    /\ UNCHANGED <<have_rules, collections, policy_rules, policy_colls, fixup_order,
                   overwrite_flag, policy_is_authoritative, console, written, err,
                   remap_args, remap_result>>

\* rules.apply_policy(policy, overwrite=args.overwrite)
\* apply_policy takes no option that makes the policy authoritative: the
\* caller's wish is recorded and nothing reads it.
ApplyPolicy ==
    /\ pc = "pol_fixed"
    /\ have_rules
    /\ \E ow \in BOOLEAN, authoritative \in BOOLEAN :
          LET st == apply_policy(collections, policy_rules, OldMaxLevel, NewMaxLevel, ow)
          IN  /\ overwrite_flag' = ow
              /\ policy_is_authoritative' = authoritative
              /\ collections' = st.collections
              /\ console' = console \o st.console
              /\ err' = st.err
              /\ pc' = IF st.err.exc = "none" THEN "applied" ELSE "error"
    /\ UNCHANGED <<have_rules, policy_rules, policy_colls, fixup_order, written,
                   remap_args, remap_result>>

\* the comparison of the numbers of collections and of rules: warnings only
ConsistencyCheck ==
    /\ pc = "applied"
    /\ console' = console
          \o (IF num_collections(collections) # policy_num_collections(policy_rules)
              THEN <<[kind |-> "WARNING_COLLECTIONS"]>> ELSE <<>>)
          \o (IF num_rules(collections) # policy_num_rules(policy_rules)
              THEN <<[kind |-> "WARNING_RULES"]>> ELSE <<>>)
    /\ pc' = "checked"
    /\ UNCHANGED <<have_rules, collections, policy_rules, policy_colls, fixup_order,
                   overwrite_flag, policy_is_authoritative, written, err,
                   remap_args, remap_result>>

\* --out is not given
NoOutput ==
    /\ pc = "checked"
    /\ pc' = "exit0"
    /\ UNCHANGED <<have_rules, collections, policy_rules, policy_colls, fixup_order,
                   overwrite_flag, policy_is_authoritative, console, written, err,
                   remap_args, remap_result>>

\* --out FILE --single: rules.write(args.out, True)
WriteSingle ==
    /\ pc = "checked"
    /\ written' = write_file(collections, "out")
    /\ pc' = "exit0"
    /\ UNCHANGED <<have_rules, collections, policy_rules, policy_colls, fixup_order,
                   overwrite_flag, policy_is_authoritative, console, err,
                   remap_args, remap_result>>

\* --out DIR, an existing directory: rules.write(args.out, False)
WriteDir ==
    /\ pc = "checked"
    /\ written' = write_dir(collections)
    /\ pc' = "exit0"
    /\ UNCHANGED <<have_rules, collections, policy_rules, policy_colls, fixup_order,
                   overwrite_flag, policy_is_authoritative, console, err,
                   remap_args, remap_result>>

\* --out names no directory: _write_dir raises ValueError
WriteDirNotADirectory ==
    /\ pc = "checked"
    /\ err' = [exc |-> "ValueError"]
    /\ pc' = "error"
    /\ UNCHANGED <<have_rules, collections, policy_rules, policy_colls, fixup_order,
                   overwrite_flag, policy_is_authoritative, console, written,
                   remap_args, remap_result>>

Next ==
    \/ RulesDirMissing
    \/ LoadRules
    \/ NoRules
    \/ BothPolicies
    \/ NoPolicy
    \/ FromRules
    \/ FromFile
    \/ Fixup
    \/ SkipFixup
    \/ PolicyWrite
    \/ PolicyOnly
    \/ ApplyPolicy
    \/ ConsistencyCheck
    \/ NoOutput
    \/ WriteSingle
    \/ WriteDir
    \/ WriteDirNotADirectory

Spec == Init /\ [][Next]_vars

(***************************************************************************)
(* The level mapping on its own: one call with arguments from a range      *)
(***************************************************************************)
\* old_level ranges over -RemapBelow .. RemapMaxLevel
RemapBelow == 3
RemapMaxLevel == 16
\* old_max_level ranges over -1 .. RemapMaxRange, new_max_level over 1 .. RemapMaxRange
RemapMaxRange == 22

InitRemap ==
    /\ pc = "remap"
    /\ have_rules = FALSE
    /\ collections = <<>>
    /\ policy_rules = <<>>
    /\ policy_colls = <<>>
    /\ fixup_order = <<>>
    /\ overwrite_flag = FALSE
    /\ policy_is_authoritative = FALSE
    /\ console = <<>>
    /\ written = <<>>
    /\ err = NoError
    /\ remap_args \in [old_level : (0 - RemapBelow)..RemapMaxLevel,
                       old_max : (0 - 1)..RemapMaxRange,
                       new_max : 1..RemapMaxRange]
    /\ remap_result = Pending

\* new_level = round((old_level - 1) / (old_max_level - 1) * (new_max_level - 1) + 1)
CallRemap ==
    /\ pc = "remap"
    /\ remap_result' = Remap(remap_args.old_level, remap_args.old_max, remap_args.new_max)
    /\ pc' = "remap_done"
    /\ UNCHANGED <<have_rules, collections, policy_rules, policy_colls, fixup_order,
                   overwrite_flag, policy_is_authoritative, console, written, err,
                   remap_args>>

\* the rule file of a call of apply_policy with a range of its own: rule 7,
\* which has a policy entry, then rule 12 at the level given, which has none
RemapDir(old_level) ==
    <<[filename |-> FileA,
       rules |-> <<El7, Element(PyStr(Txt12), PyStr(IntToStr(old_level)), None, None)>>]>>

\* the policy of that call: the sheet of FileA with its row for rule 7
RemapPolicy == LoadSheets(EmptyPolicy, <<AllSheets[1]>>).rules

\* rules.apply_policy(policy, old_max_level, new_max_level) on these rules
ApplyRemap ==
    /\ pc = "remap"
    /\ LET st == apply_policy(RemapDir(remap_args.old_level), RemapPolicy,
                              remap_args.old_max, remap_args.new_max, FALSE)
       IN  /\ collections' = st.collections
           /\ console' = console \o st.console
           /\ err' = st.err
           /\ pc' = IF st.err.exc = "none" THEN "remap_applied" ELSE "remap_error"
    /\ policy_rules' = RemapPolicy
    /\ have_rules' = TRUE
    /\ UNCHANGED <<policy_colls, fixup_order, overwrite_flag, policy_is_authoritative,
                   written, remap_args, remap_result>>

NextRemap ==
    \/ CallRemap
    \/ ApplyRemap

SpecRemap == InitRemap /\ [][NextRemap]_vars

(***************************************************************************)
(* Properties                                                              *)
(***************************************************************************)
\* the places <<c, r>> of the rule elements of the loaded rule files
Positions(colls) ==
    UNION {{<<c, r>> : r \in 1..Len(colls[c].rules)} : c \in 1..Len(colls)}

ElementAt(colls, p) == colls[p[1]].rules[p[2]]

\* equality of identifiers as the specification defines it: numeric when
\* both read as integers, otherwise the same text
IdEqual(a, b) ==
    IF IsNone(a) \/ IsNone(b) THEN FALSE
    ELSE IF IntOf(a).ok /\ IntOf(b).ok THEN IntOf(a).n = IntOf(b).n
    ELSE StrOf(a) = StrOf(b)

\* the stored policy rules whose identifier equals id
PolicyEntries(store, id) == {i \in 1..Len(store) : IdEqual(store[i].id, id)}

LinesAt(lines, kind, p) ==
    {i \in 1..Len(lines) : lines[i].kind = kind /\ lines[i].c = p[1] /\ lines[i].r = p[2]}

\* a step of apply_policy that ran to its end
ApplyStep == pc = "pol_fixed" /\ pc' = "applied"

\* C1: the lookup apply_policy makes for a document rule misses (the rule is
\* warned about as having no policy entry) exactly when no policy rule has an
\* equal identifier, numerically or else textually.
C1_LookupFindsEqualIdentifier ==
    pc = "applied" =>
        \A p \in Positions(collections) :
            (LinesAt(console, "WARNING_NO_POLICY", p) # {})
                <=> (PolicyEntries(policy_rules, ElementAt(collections, p).id) = {})

\* C2: after apply_policy a document rule with a same-identifier policy rule
\* carries that policy rule's level, its outcome is the numeric comparison of
\* the new level with the old one, and with the overwrite flag it carries
\* overwrite="yes".
C2_PolicyLevelApplied ==
    pc = "applied" =>
        \A p \in Positions(collections) :
            LET el == ElementAt(collections, p)
                entries == PolicyEntries(policy_rules, el.id)
            IN  entries # {} =>
                    /\ \E i \in entries :
                          el.level = PyStr(IntToStr(IntOf(policy_rules[i].level).n))
                    /\ \A k \in LinesAt(console, "RULE", p) :
                          /\ PyStr(IntToStr(console[k].new_level)) = el.level
                          /\ console[k].new_level = console[k].old_level
                                => console[k].outcome = "NO CHANGE"
                          /\ console[k].new_level > console[k].old_level
                                => console[k].outcome = "UPGRADE"
                          /\ console[k].new_level < console[k].old_level
                                => console[k].outcome = "DOWNGRADE"
                    /\ LinesAt(console, "RULE", p) # {}
                    /\ overwrite_flag => el.overwrite = PyStr(Yes)

\* C3: when the policy is not authoritative, apply_policy sets the level of
\* every document rule without policy entry to the remapped old level and
\* prints exactly one missing-entry warning for it.
C3_MissingEntryRemapped ==
    [][(ApplyStep /\ ~policy_is_authoritative') =>
          \A p \in Positions(collections) :
              PolicyEntries(policy_rules, ElementAt(collections, p).id) = {} =>
                  /\ ElementAt(collections', p).level =
                        PyStr(IntToStr(Remap(IntOf(ElementAt(collections, p).level).n,
                                             OldMaxLevel, NewMaxLevel).n))
                  /\ Cardinality(LinesAt(console', "WARNING_NO_POLICY", p)) = 1
                  /\ LinesAt(console, "WARNING_NO_POLICY", p) = {}]_vars

\* a rule without policy entry was remapped from 8 to 6 and warned about
C3_Witness ==
    /\ pc = "applied"
    /\ ~policy_is_authoritative
    /\ \E p \in Positions(collections) :
          /\ PolicyEntries(policy_rules, ElementAt(collections, p).id) = {}
          /\ ElementAt(collections, p).level = PyStr(<<"6">>)
          /\ \E k \in LinesAt(console, "WARNING_NO_POLICY", p) : console[k].new_level = 6
          /\ \E k \in LinesAt(console, "RULE", p) : console[k].old_level = 8

ExactRemap(old_level, old_max, new_max) ==
    LET d == old_max - 1
        n == (old_level - 1) * (new_max - 1) + d
        f == n \div d
        twice == 2 * (n - f * d)
    IN  IF twice > d THEN f + 1
        ELSE IF twice < d THEN f
        ELSE IF f % 2 = 0 THEN f ELSE f + 1

\* C5: for every integer old_level and every old_max > 1 the level mapping
\* returns round-half-to-even of (old_level-1)/(old_max-1)*(new_max-1)+1.
C5_RemapIsHalfEvenOfFormula ==
    (pc = "remap_done" /\ remap_args.old_max > 1) =>
        /\ remap_result.ok
        /\ remap_result.n =
              ExactRemap(remap_args.old_level, remap_args.old_max, remap_args.new_max)

\* C6: fixup leaves every collection that has a priority as it is and gives
\* the k-th collection without priority that its loop meets the priority
\* m + 100 * k, m being the greatest priority assigned before.
C6_FixupAssignsGapsOfHundred ==
    [][(Fixup /\ pc' # "error") =>
          LET assigned == {c \in get_collections(policy_rules) :
                              IsInt(policy_colls[c].priority)}
              m == Max({policy_colls[c].priority.n : c \in assigned})
          IN  /\ Len(policy_colls') = Len(policy_colls)
              /\ \A c \in 1..Len(policy_colls) :
                    IsInt(policy_colls[c].priority) => policy_colls'[c] = policy_colls[c]
              /\ {fixup_order'[k] : k \in 1..Len(fixup_order')}
                    = Unresolved(policy_rules, policy_colls)
              /\ Len(fixup_order') = Cardinality(Unresolved(policy_rules, policy_colls))
              /\ \A k \in 1..Len(fixup_order') :
                    policy_colls'[fixup_order'[k]].priority = PyInt(m + 100 * k)
              /\ Unresolved(policy_rules, policy_colls) = {}
                    => policy_colls' = policy_colls]_vars

\* collections of priorities 5, none, none were fixed up to 5, 105, 205
C6_Witness ==
    /\ pc = "pol_fixed"
    /\ Len(fixup_order) = 2
    /\ policy_colls[fixup_order[1]].priority = PyInt(105)
    /\ policy_colls[fixup_order[2]].priority = PyInt(205)
    /\ \E c \in get_collections(policy_rules) :
          policy_colls[c].priority = PyInt(5) /\ policy_colls[c].filename = FileA

\* C7: a store built without error, from rows or from rule files, was given
\* no two rules of one identifier, and the error raised for a second rule of
\* an identifier carries both records.
C7_DuplicateIdentifierIsFatal ==
    /\ pc = "gen_loaded" =>
          \A p, q \in Positions(collections) :
              KeyEq(ElementAt(collections, p).id, ElementAt(collections, q).id) => p = q
    /\ pc \in {"gen_loaded", "pol_loaded"} =>
          \A i, j \in 1..Len(policy_rules) :
              KeyEq(policy_rules[i].id, policy_rules[j].id) => i = j
    /\ err.exc = "IndexError" => KeyEq(err.new.id, err.old.id)

\* the priority the name of a rule file stands for, or None
FilePriority(filename) ==
    IF PolicyCollection(filename).ok THEN PolicyCollection(filename).c.priority ELSE None

\* C8: the single output file holds the collections in ascending priority.
C8_SingleFileAscendingPriority ==
    \A w \in 1..Len(written) :
        written[w].mode = "single" =>
            \A i, j \in 1..Len(written[w].parts) :
                LET pi == FilePriority(written[w].parts[i].filename)
                    pj == FilePriority(written[w].parts[j].filename)
                IN  (i < j /\ IsInt(pi) /\ IsInt(pj)) => pi.n <= pj.n

\* C9: a collection that fixup gave priority p has the filename made of p,
\* zero-padded to 4 digits, and its name, and the per-collection write of
\* the rules emits its file under that filename.
C9_FixedUpFilenameWritten ==
    \A k \in 1..Len(fixup_order) :
        LET pcoll == policy_colls[fixup_order[k]]
        IN  /\ pcoll.filename = Pad4(pcoll.priority.n) \o <<"-">> \o pcoll.name
                                    \o RulesSuffix \o XmlExt
            /\ \A w \in 1..Len(written) :
                  (/\ written[w].mode = "dir"
                   /\ PolicyCollection(collections[w].filename).ok
                   /\ PolicyCollection(collections[w].filename).c.name = pcoll.name
                   /\ IsNone(PolicyCollection(collections[w].filename).c.priority))
                      => written[w].name = pcoll.filename

\* C10: a run that met a fatal structural error wrote nothing, and a run that
\* wrote a file had finished loading, fixup, reconciliation and the check
\* without one; two rules of one identifier given to a store are such an error.
C10_NoWriteAfterFatalError ==
    /\ pc = "error" => written = <<>>
    /\ written # <<>> => pc = "exit0"
    /\ (written # <<>> /\ written[1].mode = "policy") =>
          \A p, q \in Positions(collections) :
              KeyEq(ElementAt(collections, p).id, ElementAt(collections, q).id) => p = q

\* a record that has both an id and a level
Complete(record) == ~IsNone(record.id) /\ ~IsNone(record.level)

\* C11: a tabular row or a document rule that lacks id or level is skipped
\* with a warning and never aborts the run: no rule without id or level is
\* ever in the policy store, no run ends on the exception a missing id or
\* level raises, and once apply_policy is past every complete document rule
\* has its line printed.
C11_IncompleteRecordSkipped ==
    /\ \A i \in 1..Len(policy_rules) : Complete(policy_rules[i])
    /\ ~(pc = "error" /\ err.exc = "TypeError")
    /\ pc \in {"applied", "checked"} =>
           \A p \in Positions(collections) :
               Complete(ElementAt(collections, p)) => LinesAt(console, "RULE", p) # {}

\* C12: for every old_max that is not greater than 1 the level mapping fails
\* with InvalidRemapRange, and the call of apply_policy that needs the
\* mapping ends with that error and leaves every rule as it was.
C12_DegenerateRangeRejected ==
    remap_args.old_max <= 1 =>
        /\ pc = "remap_done" =>
               ~remap_result.ok /\ remap_result.exc = "InvalidRemapRange"
        /\ pc \in {"remap_applied", "remap_error"} =>
               /\ pc = "remap_error"
               /\ err.exc = "InvalidRemapRange"
               /\ collections = RemapDir(remap_args.old_level)
====
